---- MODULE Spec2Model ----
(***************************************************************************)
(* DREKAVAC: an oversampled distortion plug-in.                            *)
(*                                                                         *)
(* The processor (src/PluginProcessor.cpp) and its DSP stages              *)
(* (src/Source/PluginProcessor.h) as a state machine.  The audio thread    *)
(* runs prepareToPlay and processBlock; processBlock is split at the       *)
(* points where it touches memory the UI thread can write (the eight       *)
(* atomic parameter reads) and at every iteration of the per-sample loop.  *)
(* The UI thread moves sliders, saves and loads presets.                   *)
(*                                                                         *)
(* float values are fixed-point integers: a sample or a parameter v is     *)
(* the integer v * ONE, a filter coefficient c the integer c * CS.         *)
(***************************************************************************)
EXTENDS Integers, Sequences, FiniteSets, TLC

\* ----------------------------------------------------------------- bounds
\* processBlock calls the host makes in one run beside the UI thread
MaxBlocks == 2
\* slider moves, preset saves and loads the UI thread makes beside the audio thread
MaxUIOps == 1
\* processBlock calls in one run of the audio thread alone
MaxAudioBlocks == 1
\* operations in one run of the UI thread alone
MaxPresetOps == 3
\* processBlock calls in one run on a silent input
MaxSilentBlocks == 3
\* values typed and sliders moved in one run of the cutoff text box
MaxTextOps == 2
\* samples per channel in the host's buffer
BlockSize == 1

\* ------------------------------------------------------------ fixed point
\* the float 1.0f
ONE == 100
\* the float 1.0f of a filter coefficient, an angle in radians, a smoothing factor
CS == 10000

Abs(x) == IF x < 0 THEN -x ELSE x

\* a / b rounded to the nearest integer, symmetric about 0 (b > 0)
RoundDiv(a, b) == IF a >= 0 THEN (2 * a + b) \div (2 * b) ELSE -((2 * (-a) + b) \div (2 * b))

\* the float product of two values of scale ONE
Mul(a, b) == RoundDiv(a * b, ONE)

\* the float product of a coefficient (scale CS) and a value of scale ONE
MulC(c, x) == RoundDiv(c * x, CS)

\* juce::jlimit(lo, hi, v)
jlimit(lo, hi, v) == IF v < lo THEN lo ELSE IF hi < v THEN hi ELSE v

\* std::max
Max(a, b) == IF a < b THEN b ELSE a

\* juce::jmap(t, lo, hi) = lo + t * (hi - lo), t of scale ONE
jmap(t, lo, hi) == lo + Mul(t, hi - lo)

RECURSIVE ISqrtIn(_, _, _)
ISqrtIn(n, lo, hi) ==
    IF lo >= hi THEN lo
    ELSE LET mid == (lo + hi + 1) \div 2
         IN  IF mid * mid <= n THEN ISqrtIn(n, mid, hi) ELSE ISqrtIn(n, lo, mid - 1)

\* the integer square root of n >= 0
ISqrt(n) == ISqrtIn(n, 0, 46340)

\* std::sqrt of a value of scale ONE (x >= 0)
Sqrt(x) == ISqrt(x * ONE)

\* std::sqrt of a value of scale CS (x >= 0)
SqrtC(x) == ISqrt(x * CS)

\* std::tanh of a value of scale ONE: the Pade form x(27 + x^2)/(27 + 9x^2),
\* which meets 1 at x = 3 and is held there, as tanhf saturates to 1.0f
Tanh(x) ==
    IF x >= 3 * ONE THEN ONE
    ELSE IF x <= -(3 * ONE) THEN -ONE
    ELSE RoundDiv(x * (27 * ONE * ONE + x * x), 27 * ONE * ONE + 9 * x * x)

\* sin(t * pi/2) for 0 <= t <= 2 (scale ONE), Bhaskara's form: 0 at t = 0 and
\* t = 2, 1 at t = 1
SinArch(t) ==
    LET p == t * (2 * ONE - t)
    IN  RoundDiv(16 * p * ONE, 20 * ONE * ONE - 4 * p)

\* std::sin(x * halfPi) for any x of scale ONE: period 4, odd
SinHalfPi(x) ==
    LET r == x % (4 * ONE)
    IN  IF r <= 2 * ONE THEN SinArch(r) ELSE -SinArch(r - 2 * ONE)

\* std::pow(d, 1.5f) = d * sqrt(d), d >= 0 of scale ONE
Pow15(d) == Mul(d, Sqrt(d))

\* std::pow(d, 2.0f)
Pow2(d) == Mul(d, d)

\* x * x of an angle (scale CS)
SqC(x) == RoundDiv(x * x, CS)

\* std::sin of an angle 0 <= x < 1 rad (scale CS): x - x^3/6 + x^5/120
SinC(x) ==
    LET x2 == SqC(x)
        x3 == RoundDiv(x2 * x, CS)
        x5 == RoundDiv(x3 * x2, CS)
    IN  x - RoundDiv(x3, 6) + RoundDiv(x5, 120)

\* std::cos of an angle 0 <= x < 1 rad (scale CS): 1 - x^2/2 + x^4/24
CosC(x) ==
    LET x2 == SqC(x)
        x4 == SqC(x2)
    IN  CS - RoundDiv(x2, 2) + RoundDiv(x4, 24)

\* std::tan of an angle 0 <= x < 1 rad (scale CS)
TanC(x) == RoundDiv(SinC(x) * CS, CosC(x))

\* std::exp(-x) for x >= 0 (scale CS): 1 / (1 + x + x^2/2 + x^3/6 + x^4/24)
ExpNeg(x) ==
    LET x2 == SqC(x)
        x3 == RoundDiv(x2 * x, CS)
        x4 == SqC(x2)
    IN  RoundDiv(CS * CS, CS + x + RoundDiv(x2, 2) + RoundDiv(x3, 6) + RoundDiv(x4, 24))

\* the angle pi * f / fs (scale CS), f and fs in Hz
AnglePi(f, fs) == RoundDiv(31416 * f, fs)

\* ------------------------------------------------ juce::dsp::IIR (library)
\* Coefficients<float>, normalised by a0: b0, b1, b2, a1, a2
Normalise(b0, b1, b2, a0, a1, a2) ==
    [b0 |-> RoundDiv(b0 * CS, a0), b1 |-> RoundDiv(b1 * CS, a0),
     b2 |-> RoundDiv(b2 * CS, a0), a1 |-> RoundDiv(a1 * CS, a0),
     a2 |-> RoundDiv(a2 * CS, a0)]

\* Coefficients<float>::makeLowPass (sampleRate, frequency, Q), Q in thousandths:
\* with t = tan(pi f / fs) the coefficients {t^2, 2t^2, t^2, t^2 + t/Q + 1,
\* 2(t^2 - 1), t^2 - t/Q + 1}
makeLowPass(sampleRate, frequency, Q) ==
    LET t  == TanC(AnglePi(frequency, sampleRate))
        t2 == SqC(t)
        tQ == RoundDiv(t * 1000, Q)
    IN  Normalise(t2, 2 * t2, t2, t2 + tQ + CS, 2 * (t2 - CS), t2 - tQ + CS)

\* Coefficients<float>::makeLowShelf (sampleRate, cutOff, Q, gainFactor),
\* gainFactor of scale ONE
makeLowShelf(sampleRate, cutOff, Q, gainFactor) ==
    LET A       == Max(0, SqrtC(gainFactor * (CS \div ONE)))
        aminus1 == A - CS
        aplus1  == A + CS
        omega   == 2 * AnglePi(Max(cutOff, 2), sampleRate)
        coso    == CosC(omega)
        beta    == RoundDiv(RoundDiv(SinC(omega) * SqrtC(A), CS) * 1000, Q)
        am1c    == RoundDiv(aminus1 * coso, CS)
        ap1c    == RoundDiv(aplus1 * coso, CS)
    IN  Normalise(RoundDiv(A * (aplus1 - am1c + beta), CS),
                  RoundDiv(A * 2 * (aminus1 - ap1c), CS),
                  RoundDiv(A * (aplus1 - am1c - beta), CS),
                  aplus1 + am1c + beta,
                  -2 * (aminus1 + ap1c),
                  aplus1 + am1c - beta)

\* Coefficients<float>::makeHighShelf (sampleRate, cutOff, Q, gainFactor)
makeHighShelf(sampleRate, cutOff, Q, gainFactor) ==
    LET A       == Max(0, SqrtC(gainFactor * (CS \div ONE)))
        aminus1 == A - CS
        aplus1  == A + CS
        omega   == 2 * AnglePi(Max(cutOff, 2), sampleRate)
        coso    == CosC(omega)
        beta    == RoundDiv(RoundDiv(SinC(omega) * SqrtC(A), CS) * 1000, Q)
        am1c    == RoundDiv(aminus1 * coso, CS)
        ap1c    == RoundDiv(aplus1 * coso, CS)
    IN  Normalise(RoundDiv(A * (aplus1 + am1c + beta), CS),
                  RoundDiv(A * (-2) * (aminus1 + ap1c), CS),
                  RoundDiv(A * (aplus1 + am1c - beta), CS),
                  aplus1 - am1c + beta,
                  2 * (aminus1 - ap1c),
                  aplus1 - am1c - beta)

\* IIR::Filter<float>(): the pass-through coefficients and an empty memory
IIRFilter == [coefficients |-> [b0 |-> CS, b1 |-> 0, b2 |-> 0, a1 |-> 0, a2 |-> 0],
              state |-> <<0, 0>>]

\* IIR::Filter::reset
IIR_reset(f) == [f EXCEPT !.state = <<0, 0>>]

\* IIR::Filter::processSample (transposed direct form II): the output and the filter after it
IIR_processSample(f, sample) ==
    LET c      == f.coefficients
        output == MulC(c.b0, sample) + f.state[1]
    IN  [out |-> output,
         st  |-> [f EXCEPT !.state = <<MulC(c.b1, sample) - MulC(c.a1, output) + f.state[2],
                                      MulC(c.b2, sample) - MulC(c.a2, output)>>]]

\* ------------------------------------------------------------ ToneProcessor
pivotFreq == 1000
\* q = 0.707f, in thousandths
q == 707

\* ToneProcessor::updateCoefficients
Tone_updateCoefficients(t) ==
    [t EXCEPT
       !.lowFilter.coefficients =
           makeLowShelf(t.fs, t.modulatedPivot, t.modulatedQ, ONE + Mul(ONE - t.balance, 150)),
       !.highFilter.coefficients =
           makeHighShelf(t.fs, t.modulatedPivot, t.modulatedQ, ONE + Mul(t.balance, 150))]

\* ToneProcessor as constructed: default member initialisers, default filters
ToneProcessor ==
    [lowFilter |-> IIRFilter, highFilter |-> IIRFilter, fs |-> 44100,
     balance |-> ONE \div 2, modulatedPivot |-> pivotFreq, modulatedQ |-> q]

\* ToneProcessor::prepare
Tone_prepare(t, sampleRate) ==
    LET u == Tone_updateCoefficients([t EXCEPT !.fs = sampleRate])
    IN  [u EXCEPT !.lowFilter = IIR_reset(u.lowFilter), !.highFilter = IIR_reset(u.highFilter)]

\* a setParameters that leaves the coefficients as they were
Tone_setParameters_Stale(t, toneSlider, driveSlider) ==
    [t EXCEPT !.balance = jlimit(0, ONE, toneSlider),
              !.modulatedPivot = pivotFreq + Mul(driveSlider, 100 * ONE) \div ONE,
              !.modulatedQ = q + RoundDiv(driveSlider * 50, ONE)]

\* ToneProcessor::setParameters
Tone_setParameters(t, toneSlider, driveSlider) ==
    Tone_updateCoefficients(
        [t EXCEPT !.balance = jlimit(0, ONE, toneSlider),
                  !.modulatedPivot = pivotFreq + Mul(driveSlider, 100 * ONE) \div ONE,
                  !.modulatedQ = q + RoundDiv(driveSlider * 50, ONE)])

\* ToneProcessor::processSample
Tone_processSample(t, input) ==
    LET low  == IIR_processSample(t.lowFilter, input)
        high == IIR_processSample(t.highFilter, input)
    IN  [out |-> jmap(t.balance, low.out, high.out),
         st  |-> [t EXCEPT !.lowFilter = low.st, !.highFilter = high.st]]

\* ---------------------------------------------------------------- Overdrive
\* Overdrive::Overdrive
Overdrive == [drive |-> ONE, tone |-> ONE \div 2, prevY |-> 0]

\* Overdrive::setDrive
Overdrive_setDrive(o, d) == [o EXCEPT !.drive = d]

\* Overdrive::setTone
Overdrive_setTone(o, t) == [o EXCEPT !.tone = jlimit(0, ONE, t)]

\* the one-pole factor alpha = dt / (RC + dt) = 2 pi f / (fs + 2 pi f), scale CS
OnePoleAlpha(cutoff, sampleRate) ==
    LET twoPiF == RoundDiv(62832 * cutoff, CS)
    IN  RoundDiv(twoPiF * CS, sampleRate + twoPiF)

\* Overdrive::processSample
Overdrive_processSample(o, input, sampleRate) ==
    LET xx     == Mul(input, ONE + Pow2(o.drive))
        y      == Tanh(xx)
        cutoff == 200 + (o.tone * 8000) \div ONE
        alpha  == OnePoleAlpha(cutoff, sampleRate)
        prevY  == o.prevY + MulC(alpha, y - o.prevY)
    IN  [out |-> prevY, st |-> [o EXCEPT !.prevY = prevY]]

\* --------------------------------------------------------------- Distortion
\* minHz * pow(maxHz / minHz, pow(sliderValue, 0.7f)), minHz = 100, maxHz = 8000:
\* the curve at sliderValue = 0, 0.1, ..., 1, linear between the knots
CutoffKnots == <<100, 240, 414, 660, 1005, 1484, 2143, 3038, 4245, 5858, 8000>>

CutoffHz(sliderValue) ==
    LET k == sliderValue \div 10
        r == sliderValue % 10
    IN  IF k >= 10 THEN CutoffKnots[11]
        ELSE CutoffKnots[k + 1] + RoundDiv((CutoffKnots[k + 2] - CutoffKnots[k + 1]) * r, 10)

\* a float that may be no number: isNaN, or the finite value
Float(isNaN, value) == [isNaN |-> isNaN, value |-> value]

\* pow(log(hz / minHz) / log(maxHz / minHz), 1 / exponent) for hz above minHz:
\* the slider value whose cutoff is hz, beyond 1 for hz beyond maxHz
CutoffNorm(hz) ==
    IF hz >= CutoffKnots[11]
      THEN ONE + RoundDiv(10 * (hz - CutoffKnots[11]), CutoffKnots[11] - CutoffKnots[10])
      ELSE LET k == CHOOSE i \in 1..10 : CutoffKnots[i] <= hz /\ hz < CutoffKnots[i + 1]
           IN  10 * (k - 1) + RoundDiv(10 * (hz - CutoffKnots[k]),
                                       CutoffKnots[k + 1] - CutoffKnots[k])

\* the cutoff parameter's text-to-value function, on the number getFloatValue
\* reads (0 for text that is no number).  log of a negative number is NaN and
\* log(0) is -inf; pow of -inf to 1 / 0.7 is +inf; pow of a negative finite
\* base to 1 / 0.7 is NaN; jlimit compares and so hands a NaN through
cutoffTextToValue(hz) ==
    LET minHz == CutoffKnots[1]
    IN  IF hz < 0 THEN Float(TRUE, 0)
        ELSE IF hz = 0 THEN Float(FALSE, ONE)
        ELSE IF hz < minHz THEN Float(TRUE, 0)
        ELSE Float(FALSE, jlimit(0, ONE, CutoffNorm(hz)))

\* Distortion::updateFilter
Distortion_updateFilter(d) ==
    LET coeffs == makeLowPass(d.fs, d.cutoff, 707)
    IN  [d EXCEPT !.filters = [i \in 1..2 |-> [d.filters[i] EXCEPT !.coefficients = coeffs]]]

\* Distortion::Distortion: the constructor computes the filter from the member
\* cutoff, which nothing has set yet; `uninit` is the value read there
Distortion(uninit) ==
    Distortion_updateFilter(
        [preGain |-> ONE, sliderValue |-> ONE \div 5, cutoff |-> uninit, fs |-> 44100,
         postPrev |-> 0, filters |-> <<IIRFilter, IIRFilter>>])

\* Distortion::setPreGain
Distortion_setPreGain(d, g) == [d EXCEPT !.preGain = g]

\* Distortion::setCutoffSliderValue
Distortion_setCutoffSliderValue(d, value) ==
    LET sliderValue == jlimit(0, ONE, value)
    IN  Distortion_updateFilter([d EXCEPT !.sliderValue = sliderValue,
                                          !.cutoff = CutoffHz(sliderValue)])

\* Distortion::prepare: Filter::reset, then Filter::prepare, which resets again
Distortion_prepare(d, sampleRate) ==
    Distortion_updateFilter(
        [d EXCEPT !.fs = sampleRate,
                  !.filters = [i \in 1..2 |-> IIR_reset(d.filters[i])]])

\* Distortion::processSample
Distortion_processSample(d, input) ==
    LET y0    == Tanh(Mul(input, d.preGain))
        f1    == IIR_processSample(d.filters[1], y0)
        f2    == IIR_processSample(d.filters[2], f1.out)
        alpha == ExpNeg(RoundDiv(62832 * 10000, d.fs))
        y     == d.postPrev + MulC(CS - alpha, f2.out - d.postPrev)
    IN  [out |-> Tanh(y),
         st  |-> [d EXCEPT !.filters = <<f1.st, f2.st>>, !.postPrev = y]]

\* --------------------------------------------------------------- Wavefolder
\* Wavefolder::Wavefolder
Wavefolder == [depth |-> 0]

\* Wavefolder::setDepth (d >= 0)
Wavefolder_setDepth(w, d) == [w EXCEPT !.depth = jlimit(0, ONE, Pow15(d))]

\* Wavefolder::processSample
Wavefolder_processSample(w, input) ==
    LET scaled == Mul(input, ONE + w.depth * 9)
        folded == Tanh(SinHalfPi(scaled))
    IN  Mul(input, ONE - w.depth) + Mul(folded, w.depth)

\* --------------------------------------------------------- SimpleCompressor
\* a float member no constructor has set and nothing has read
Unset == -1

\* SimpleCompressor::SimpleCompressor: attackCoeff and releaseCoeff are left unset
\* envelope is in ten-thousandths; call holds the locals of the last processSample
\* call, levels in dB in hundredths
SimpleCompressor ==
    [sampleRate |-> 44100, envelope |-> 0, attackCoeff |-> Unset, releaseCoeff |-> Unset,
     call |-> [ran |-> FALSE, input |-> 0, levelDb |-> 0, gainDb |-> 0, gain |-> CS,
               output |-> 0]]

\* SimpleCompressor::prepare: exp(-1 / (time * fs)), attackTime 5 ms, releaseTime 50 ms
Compressor_prepare(c, fs) ==
    [c EXCEPT !.sampleRate = fs, !.envelope = 0,
              !.attackCoeff = ExpNeg(RoundDiv(CS * 1000, 5 * fs)),
              !.releaseCoeff = ExpNeg(RoundDiv(CS * 1000, 50 * fs))]

\* SimpleCompressor::linearToDb: 20 * log10(max(lin, 1e-20)), lin in
\* ten-thousandths, by interpolation between the values at 0, 0.1, .. 1.0
linearToDb(lin) ==
    LET db == <<-40000, -2000, -1398, -1046, -796, -602, -444, -310, -194, -92, 0>>
        k  == lin \div 1000
        r  == lin % 1000
    IN  IF k >= 10 THEN RoundDiv(92 * (lin - CS), 1000)
        ELSE db[k + 1] + RoundDiv((db[k + 2] - db[k + 1]) * r, 1000)

\* SimpleCompressor::dbToLinear: pow(10, db / 20), in ten-thousandths
dbToLinear(db) ==
    LET t  == RoundDiv(db * 11513, 1000)
        t2 == RoundDiv(t * t, CS)
        t3 == RoundDiv(t2 * t, CS)
    IN  CS + t + RoundDiv(t2, 2) + RoundDiv(t3, 6)

\* SimpleCompressor::processSample: threshold -3 dB, ratio 2, knee 2 dB
Compressor_processSample(c, input) ==
    LET threshold == -3 * ONE
        ratio     == 2
        knee      == 2 * ONE
        level     == Abs(input) * (CS \div ONE)
        envelope  == IF level > c.envelope
                       THEN MulC(c.attackCoeff, c.envelope - level) + level
                       ELSE MulC(c.releaseCoeff, c.envelope - level) + level
        levelDb   == linearToDb(envelope)
        lowerKnee == threshold - knee \div 2
        upperKnee == threshold + knee \div 2
        reduction == threshold + RoundDiv(levelDb - threshold, ratio) - levelDb
        x         == RoundDiv((levelDb - lowerKnee) * ONE, knee)
        smooth    == Mul(Mul(x, x), 3 * ONE - 2 * x)
        gainDb    == IF levelDb > upperKnee THEN reduction
                     ELSE IF levelDb > lowerKnee THEN Mul(smooth, reduction)
                     ELSE 0
        gain      == dbToLinear(gainDb)
    IN  [c EXCEPT !.envelope = envelope,
                  !.call = [ran |-> TRUE, input |-> input, levelDb |-> levelDb,
                            gainDb |-> gainDb, gain |-> gain,
                            output |-> RoundDiv(input * gain, CS)]]


\* ------------------------------------- juce::dsp::Oversampling (library)
\* oversampler{ 2, 2, filterHalfBandPolyphaseIIR }: the channels and the number
\* of 2x stages
OsNumChannels == 2
OsFactor == 2
\* the all-pass coefficient of the direct and of the delayed path of a stage
osDirectAlpha == 5600
osDelayedAlpha == 1200

Channels == 0..(OsNumChannels - 1)

\* Oversampling::getOversamplingFactor
getOversamplingFactor == 2 ^ OsFactor

\* one first-order all-pass section: the output and the section's memory after it
AllPass(alpha, input, lv) ==
    LET output == MulC(alpha, input) + lv
    IN  [out |-> output, lv |-> input - MulC(alpha, output)]

\* the delay lines of one 2x stage of one channel, after reset
OsStage == [v1Up |-> <<0, 0>>, v1Down |-> <<0, 0>>, delayDown |-> 0]

\* Oversampling::reset: every delay line of every stage of every channel zeroed
Oversampling_reset == [c \in Channels |-> [k \in 1..OsFactor |-> OsStage]]

RECURSIVE StageUp(_, _)
\* Oversampling2TimesPolyphaseIIR::processSamplesUp for one channel: each sample
\* gives the direct path's and the delayed path's output
StageUp(st, samples) ==
    IF samples = <<>> THEN [out |-> <<>>, st |-> st]
    ELSE LET d    == AllPass(osDirectAlpha, Head(samples), st.v1Up[1])
             l    == AllPass(osDelayedAlpha, Head(samples), st.v1Up[2])
             rest == StageUp([st EXCEPT !.v1Up = <<d.lv, l.lv>>], Tail(samples))
         IN  [out |-> <<d.out, l.out>> \o rest.out, st |-> rest.st]

RECURSIVE StageDown(_, _)
\* Oversampling2TimesPolyphaseIIR::processSamplesDown for one channel: each pair
\* of samples gives (delayDown + direct) * 0.5
StageDown(st, samples) ==
    IF samples = <<>> THEN [out |-> <<>>, st |-> st]
    ELSE LET d    == AllPass(osDirectAlpha, samples[1], st.v1Down[1])
             l    == AllPass(osDelayedAlpha, samples[2], st.v1Down[2])
             rest == StageDown([st EXCEPT !.v1Down = <<d.lv, l.lv>>, !.delayDown = l.out],
                               Tail(Tail(samples)))
         IN  [out |-> <<RoundDiv(st.delayDown + d.out, 2)>> \o rest.out, st |-> rest.st]

RECURSIVE ChannelUp(_, _, _)
\* the stages 1..OsFactor in turn, from stage k on
ChannelUp(stages, k, samples) ==
    IF k > OsFactor THEN [out |-> samples, st |-> stages]
    ELSE LET u == StageUp(stages[k], samples)
         IN  ChannelUp([stages EXCEPT ![k] = u.st], k + 1, u.out)

RECURSIVE ChannelDown(_, _, _)
\* the stages OsFactor..1 in turn, from stage k on
ChannelDown(stages, k, samples) ==
    IF k < 1 THEN [out |-> samples, st |-> stages]
    ELSE LET u == StageDown(stages[k], samples)
         IN  ChannelDown([stages EXCEPT ![k] = u.st], k - 1, u.out)

\* Oversampling::processSamplesUp: the oversampled block and the delay lines after it
processSamplesUp(os, block) ==
    LET up == [c \in Channels |-> ChannelUp(os[c], 1, block[c])]
    IN  [block |-> [c \in Channels |-> up[c].out], st |-> [c \in Channels |-> up[c].st]]

\* Oversampling::processSamplesDown
processSamplesDown(os, block) ==
    LET dn == [c \in Channels |-> ChannelDown(os[c], OsFactor, block[c])]
    IN  [block |-> [c \in Channels |-> dn[c].out], st |-> [c \in Channels |-> dn[c].st]]

\* ------------------------------------------------------------ the parameters
\* the parameter IDs, in the order processBlock reads them
ParamIds == <<"drive", "tone", "distortion", "cutoff", "fold", "flavor", "output", "drywet">>

ParamIdSet == {ParamIds[i] : i \in 1..Len(ParamIds)}

\* the position of a parameter among processBlock's reads
ParamIndex(id) == CHOOSE i \in 1..Len(ParamIds) : ParamIds[i] = id

\* createParameterLayout: the ranges (every range starts at 0) and the defaults
ParamMax ==
    [id \in ParamIdSet |->
        CASE id = "drive" -> 10 * ONE
          [] id = "distortion" -> 10 * ONE
          [] id = "output" -> 2 * ONE
          [] OTHER -> ONE]

ParamDefault ==
    [id \in ParamIdSet |->
        CASE id = "drive" -> ONE
          [] id = "tone" -> ONE \div 2
          [] id = "distortion" -> ONE
          [] id = "cutoff" -> (3 * ONE) \div 4
          [] id = "fold" -> ONE \div 5
          [] id = "flavor" -> ONE \div 2
          [] id = "output" -> ONE
          [] id = "drywet" -> ONE \div 2]

\* the root tag of the parameter tree the constructor builds
TreeType == "DREKAVAC_PARAMETERS"

\* RangedAudioParameter (library): a value entering the store is brought into the range
SnapToRange(id, v) == jlimit(0, ParamMax[id], v)

\* AudioProcessorValueTreeState::replaceState (library): a parameter the tree
\* names takes the tree's value, a parameter it does not name keeps its own
replaceState(params, values) ==
    [id \in ParamIdSet |->
        IF id \in DOMAIN values THEN SnapToRange(id, values[id]) ELSE params[id]]

\* ------------------------------------------------------------ the processor
\* the DSP stage members as the constructor leaves them
Constructed(uninitCutoff) ==
    [overdrive |-> Overdrive, dist |-> Distortion(uninitCutoff), fold |-> Wavefolder,
     toneProcessor |-> ToneProcessor, simpleComp |-> SimpleCompressor,
     oversampler |-> Oversampling_reset, heapOps |-> 0,
     latencySamples |-> 0, displayUpdates |-> 0]

\* prepareToPlay; getSampleRate is what AudioProcessor::getSampleRate returns.
\* latencySamples is what AudioProcessor::getLatencySamples gives the host,
\* displayUpdates the updateHostDisplay calls made so far: the function calls
\* neither setLatencySamples nor notifyUIUpdate
prepareToPlay(d, sampleRate, getSampleRate) ==
    [oversampler   |-> Oversampling_reset,
     toneProcessor |-> Tone_prepare(d.toneProcessor, sampleRate),
     dist          |-> Distortion_setCutoffSliderValue(
                           Distortion_setPreGain(Distortion_prepare(d.dist, getSampleRate), ONE),
                           ONE \div 2),
     overdrive     |-> Overdrive_setTone(Overdrive_setDrive(d.overdrive, ONE), ONE \div 2),
     fold          |-> Wavefolder_setDepth(d.fold, 0),
     simpleComp    |-> Compressor_prepare(d.simpleComp, getSampleRate),
     heapOps       |-> 0,
     latencySamples |-> d.latencySamples,
     displayUpdates |-> d.displayUpdates]

\* a local of processBlock, by its parameter
Local(lc, id) == lc[ParamIndex(id)]

\* the juce::dsp::IIR::Coefficients objects one push of the control values
\* makes: each make call returns a new reference-counted object from the heap
CoefficientObjects == <<"makeLowShelf", "makeHighShelf", "makeLowPass">>

\* processBlock, "Update DSP modules": the stages take the block's control
\* values; heapOps counts the heap allocations of the current processBlock call
UpdateModules(d, lc) ==
    [d EXCEPT
       !.heapOps = @ + Len(CoefficientObjects),
       !.overdrive = Overdrive_setTone(Overdrive_setDrive(d.overdrive, Local(lc, "drive")),
                                       Local(lc, "tone")),
       !.toneProcessor = Tone_setParameters(d.toneProcessor, Local(lc, "tone"), Local(lc, "drive")),
       !.dist = Distortion_setCutoffSliderValue(
                    Distortion_setPreGain(d.dist, Max(0, Local(lc, "distortion"))),
                    Local(lc, "cutoff")),
       !.fold = Wavefolder_setDepth(d.fold, Local(lc, "fold"))]

\* const float preGain = 0.6f
preGain == 60

\* a blend weight taken from the cosine instead
FlavorBlend_Cosine(flavor) == SinHalfPi(ONE - flavor)

\* processBlock: float f = std::sin(flavor * halfPi)
FlavorBlend(flavor) == SinHalfPi(flavor)

\* processBlock: parallel = odSample + distSample * (1 - f) + foldSample * f
Parallel(odSample, distSample, foldSample, f) ==
    odSample + Mul(distSample, ONE - f) + Mul(foldSample, f)

\* a mix with the two weights exchanged
DryWetMix_Swapped(inputSample, filtered, drywet) ==
    LET w == Sqrt(drywet)
    IN  Mul(inputSample, w) + Mul(filtered, ONE - w)

\* processBlock: w = sqrt(drywet); mixed = inputSample * (1 - w) + filtered * w
DryWetMix(inputSample, filtered, drywet) ==
    LET w == Sqrt(drywet)
    IN  Mul(inputSample, ONE - w) + Mul(filtered, w)

\* an output stage with the gain after the limiter
OutputStage_GainLast(mixed, outputGain) == Mul(Tanh(mixed), outputGain)

\* processBlock: mixed *= outputGain; mixed = std::tanh(mixed)
OutputStage(mixed, outputGain) == Tanh(Mul(mixed, outputGain))

\* the input sample handed on as it is
OverdriveInput_Raw(inputSample) == inputSample

\* a scaled input with a constant offset added
OverdriveInput_Offset(inputSample) == Mul(inputSample, preGain) + ONE

\* the sample the Overdrive stage is given
OverdriveInput(inputSample) == Mul(inputSample, preGain)

\* one iteration of the per-sample loop: the loop body's locals and the stages after it
PerSample(d, lc, inputSample, oversampledRate) ==
    LET scaledInput == OverdriveInput(inputSample)
        od          == Overdrive_processSample(d.overdrive, scaledInput, oversampledRate)
        di          == Distortion_processSample(d.dist, od.out)
        foldSample  == Wavefolder_processSample(d.fold, od.out)
        f           == FlavorBlend(Local(lc, "flavor"))
        parallel    == Parallel(od.out, di.out, foldSample, f)
        tn          == Tone_processSample(d.toneProcessor, parallel)
        mix         == DryWetMix(inputSample, tn.out, Local(lc, "drywet"))
    IN  [iter |-> [ran |-> TRUE, inputSample |-> inputSample, scaledInput |-> scaledInput,
                   odSample |-> od.out, distSample |-> di.out, foldSample |-> foldSample,
                   f |-> f, parallel |-> parallel, filtered |-> tn.out, mix |-> mix,
                   flavor |-> Local(lc, "flavor"), drywet |-> Local(lc, "drywet"),
                   outputGain |-> Local(lc, "output"),
                   mixed |-> OutputStage(mix, Local(lc, "output"))],
         dsp  |-> [d EXCEPT !.overdrive = od.st, !.dist = di.st, !.toneProcessor = tn.st]]

\* the loop body's locals before any iteration of a block
NoIter ==
    [ran |-> FALSE, inputSample |-> 0, scaledInput |-> 0, odSample |-> 0, distSample |-> 0,
     foldSample |-> 0, f |-> 0, parallel |-> 0, filtered |-> 0, mix |-> 0, flavor |-> 0,
     drywet |-> 0, outputGain |-> 0, mixed |-> 0]

\* notifyUIUpdate: the editor is repainted and the host told to refresh
notifyUIUpdate(d) == [d EXCEPT !.displayUpdates = @ + 1]

\* ------------------------------------------------------- presets on disk
FileNames == {"user.preset", "user.txt", "partial.preset", "bad.preset", "other.preset",
              "factory.preset"}

\* juce::File::hasFileExtension(".preset")
hasPresetExtension(file) == file # "user.txt"

\* an XML document: its root tag, the PARAM children it holds and its presetName attribute
XmlElement(tag, values, hasName, presetName) ==
    [kind |-> "xml", tag |-> tag, values |-> values, hasName |-> hasName,
     presetName |-> presetName]

\* no file at that path
NoFile == [kind |-> "none", tag |-> "", values |-> <<>>, hasName |-> FALSE, presetName |-> ""]

\* bytes that are no XML document
Garbage == [kind |-> "garbage", tag |-> "", values |-> <<>>, hasName |-> FALSE, presetName |-> ""]

\* a document of this plug-in that names one parameter only and no preset name
PartialDoc == XmlElement(TreeType, [id \in {"drive"} |-> 5 * ONE], FALSE, "")

\* a complete document of another product
ForeignDoc == XmlElement("OTHER", [id \in ParamIdSet |-> ParamMax[id]], TRUE, "Foreign")

\* a complete preset of this plug-in
FactoryDoc == XmlElement(TreeType, [id \in ParamIdSet |-> ParamMax[id]], TRUE, "Factory")

\* the files on disk before the plug-in has written any
InitialFiles ==
    [f \in FileNames |->
        CASE f = "partial.preset" -> PartialDoc
          [] f = "bad.preset" -> Garbage
          [] f = "other.preset" -> ForeignDoc
          [] f = "factory.preset" -> FactoryDoc
          [] OTHER -> NoFile]

\* parameters.copyState().createXml(): every parameter's current value under the tree's tag
createXml(tag, params) == XmlElement(tag, params, FALSE, "")

\* a snapshot is valid when it parses, carries the plug-in's root tag and names
\* every parameter
ValidSnapshot(doc) ==
    doc.kind = "xml" /\ doc.tag = TreeType /\ DOMAIN doc.values = ParamIdSet

\* the blocks of host memory setStateInformation is given
StateData == {Garbage, PartialDoc, ForeignDoc, createXml(TreeType, [id \in ParamIdSet |-> 0])}

\* ------------------------------------------------------------- the inputs
\* the levels of a host buffer's channel
Levels == {0, ONE, -(ONE \div 2)}

\* a buffer that holds one level per channel for the block
HostBlock(l) == [c \in Channels |-> [i \in 1..BlockSize |-> l[c + 1]]]

\* the buffers processBlock is given
HostBlocks == {HostBlock(l) : l \in {<<0, 0>>, <<ONE, -(ONE \div 2)>>, <<-(ONE \div 2), ONE>>}}

\* the sample rates the host prepares with
SampleRates == {44100, 48000}

\* the values a slider is moved to
ParamValues(id) == {0, ParamDefault[id], ParamMax[id]}

\* a store with one more slider moved
Deviate(params, id) == {[params EXCEPT ![id] = v] : v \in ParamValues(id)}

\* the frequencies typed into the cutoff text box, 0 for text that is no number
TypedHz == {-440, 0, 1, 50, 99, 100, 101, 414, 1000, 7999, 8000, 20000}

\* the stores in which at most two sliders are off their defaults
Settings ==
    UNION {Deviate(p, id) : p \in UNION {Deviate(ParamDefault, i) : i \in ParamIdSet},
                            id \in ParamIdSet}

\* values outside a parameter's range; a negative fold or drywet makes pow and
\* sqrt give a NaN, which the fixed-point values do not have
OutOfRange(id) ==
    {ParamMax[id] + ONE} \cup (IF id \in {"fold", "drywet"} THEN {} ELSE {-ONE})

\* the stores in which one value is anywhere, in its range or not
AnyStores ==
    UNION {{[ParamDefault EXCEPT ![id] = v] : v \in ParamValues(id) \cup OutOfRange(id)} :
           id \in ParamIdSet}

\* what reading the unset member cutoff in Distortion's constructor can give
UninitCutoffs == {0, 12000}

Silence == [c \in Channels |-> [i \in 1..BlockSize |-> 0]]

\* ------------------------------------------------------------------ state
VARIABLES
    dsp,                \* the processor: its stages and oversampler, the latency it has
                        \* reported, its updateHostDisplay calls, its heap allocations
    currentSampleRate,  \* AudioProcessor::getSampleRate(), 0 before the first prepare
    parameters,         \* the raw parameter values of the AudioProcessorValueTreeState
    stateType,          \* parameters.state.getType()
    currentPresetName,
    files,              \* the file system
    pc,                 \* where the audio thread is in processBlock, "idle" outside it
    locals,             \* processBlock's drive .. drywet, as far as they are read
    buffer,             \* the host's buffer
    oversampledBlock,
    channel,
    sample,
    iter,               \* the locals of the per-sample loop's last iteration
    blockBudget,        \* processBlock calls still to come
    uiBudget,           \* UI operations still to come
    loadsDone,          \* replaceState calls completed
    readEpoch,          \* loadsDone at each read of a local
    seen,               \* the contents the store has had since the block's first read
    lastSave,           \* per file, what the last savePresetToFile call was made with
    textValue,          \* what the cutoff parameter's last text-to-value call returned
    twin                \* a second processor, given the same calls

vars == <<dsp, currentSampleRate, parameters, stateType, currentPresetName, files, pc, locals,
          buffer, oversampledBlock, channel, sample, iter, blockBudget, uiBudget, loadsDone,
          readEpoch, seen, lastSave, textValue, twin>>

audioVars == <<dsp, currentSampleRate, pc, locals, buffer, oversampledBlock, channel, sample,
               iter, blockBudget, readEpoch>>

\* no text has been converted yet
NoText == [called |-> FALSE, hz |-> 0, result |-> Float(FALSE, 0)]

NoSave ==
    [called |-> FALSE, written |-> FALSE, dirty |-> FALSE, parameters |-> ParamDefault,
     presetName |-> ""]

\* the state the constructor leaves, with the store the host has restored and
\* the calls still to come
InitFrom(stores, nBlocks, nUIOps) ==
    /\ \E u \in UninitCutoffs :
          /\ dsp = Constructed(u)
          /\ twin = [dsp |-> Constructed(u), buffer |-> Silence, oversampledBlock |-> Silence]
    /\ currentSampleRate = 0
    /\ parameters \in stores
    /\ stateType = TreeType
    /\ currentPresetName = "Default"
    /\ files = InitialFiles
    /\ pc = "idle"
    /\ locals = <<>>
    /\ buffer = Silence
    /\ oversampledBlock = Silence
    /\ channel = 0
    /\ sample = 0
    /\ iter = NoIter
    /\ blockBudget = nBlocks
    /\ uiBudget = nUIOps
    /\ loadsDone = 0
    /\ readEpoch = <<>>
    /\ seen = {parameters}
    /\ lastSave = [f \in FileNames |-> NoSave]
    /\ textValue = NoText

Init == InitFrom({ParamDefault}, MaxBlocks, MaxUIOps)

\* ------------------------------------------------------- the audio thread
\* prepareToPlay on one processor; the host has set the rate getSampleRate
\* returns (setRateAndBufferSizeDetails) before it calls
Prepared(d, sampleRate) == prepareToPlay(d, sampleRate, sampleRate)

PrepareCore(sampleRate) ==
    /\ pc = "idle"
    /\ currentSampleRate' = sampleRate
    /\ dsp' = Prepared(dsp, sampleRate)
    /\ UNCHANGED <<pc, locals, buffer, oversampledBlock, channel, sample, iter, blockBudget,
                   readEpoch>>
    /\ UNCHANGED textValue
    /\ UNCHANGED <<parameters, stateType, currentPresetName, files, uiBudget, loadsDone, seen,
                   lastSave>>

PrepareToPlay == \E sampleRate \in SampleRates : PrepareCore(sampleRate) /\ UNCHANGED twin

\* processBlock up to processSamplesUp, on one processor
EnterBlock(d, input) ==
    LET up == processSamplesUp(d.oversampler, input)
    IN  [dsp |-> [d EXCEPT !.oversampler = up.st, !.heapOps = 0], block |-> up.block]

EnterCore(input) ==
    /\ pc = "idle"
    /\ currentSampleRate # 0
    /\ blockBudget > 0
    /\ blockBudget' = blockBudget - 1
    /\ buffer' = input
    /\ \E e \in {EnterBlock(dsp, input)} : dsp' = e.dsp /\ oversampledBlock' = e.block
    /\ pc' = "read"
    /\ locals' = <<>>
    /\ readEpoch' = <<>>
    /\ seen' = {parameters}
    /\ iter' = NoIter
    /\ UNCHANGED <<currentSampleRate, channel, sample>>
    /\ UNCHANGED textValue
    /\ UNCHANGED <<parameters, stateType, currentPresetName, files, uiBudget, loadsDone, lastSave>>

ProcessBlockEnter == \E input \in HostBlocks : EnterCore(input) /\ UNCHANGED twin

\* one of the eight reads *parameters.getRawParameterValue(id)
ReadParameter ==
    /\ pc = "read"
    /\ Len(locals) < Len(ParamIds)
    /\ locals' = Append(locals, parameters[ParamIds[Len(locals) + 1]])
    /\ readEpoch' = Append(readEpoch, loadsDone)
    /\ UNCHANGED <<dsp, currentSampleRate, pc, buffer, oversampledBlock, channel, sample, iter,
                   blockBudget, twin>>
    /\ UNCHANGED textValue
    /\ UNCHANGED <<parameters, stateType, currentPresetName, files, uiBudget, loadsDone, seen,
                   lastSave>>

UpdateCore ==
    /\ pc = "read"
    /\ Len(locals) = Len(ParamIds)
    /\ dsp' = UpdateModules(dsp, locals)
    /\ pc' = "loop"
    /\ channel' = 0
    /\ sample' = 0
    /\ UNCHANGED <<currentSampleRate, locals, buffer, oversampledBlock, iter, blockBudget,
                   readEpoch>>
    /\ UNCHANGED textValue
    /\ UNCHANGED <<parameters, stateType, currentPresetName, files, uiBudget, loadsDone, seen,
                   lastSave>>

UpdateDSPModules == UpdateCore /\ UNCHANGED twin

\* static_cast<float>(getSampleRate()) * oversampler.getOversamplingFactor()
oversampledRate == currentSampleRate * getOversamplingFactor

\* control values read from the store at every iteration
LoopControls_Live == [i \in 1..Len(ParamIds) |-> parameters[ParamIds[i]]]

\* the control values an iteration of the loop works with: the block's locals
LoopControls == locals

\* oversampledBlock.getNumSamples()
numSamples == Len(oversampledBlock[0])

\* getTotalNumInputChannels()
totalNumInputChannels == OsNumChannels

\* an iteration that also runs the compressor on the sample it writes
Iterate_Compressed(d, block) ==
    LET r == PerSample(d, LoopControls, block[channel][sample + 1], oversampledRate)
    IN  [r EXCEPT !.dsp.simpleComp = Compressor_processSample(d.simpleComp, r.iter.mixed)]

\* one iteration of the per-sample loop on one processor
Iterate(d, block) == PerSample(d, LoopControls, block[channel][sample + 1], oversampledRate)

SampleCore ==
    /\ pc = "loop"
    /\ \E r \in {Iterate(dsp, oversampledBlock)} :
          /\ dsp' = r.dsp
          /\ iter' = r.iter
          /\ oversampledBlock' = [oversampledBlock EXCEPT ![channel][sample + 1] = r.iter.mixed]
    /\ IF sample + 1 < numSamples
         THEN sample' = sample + 1 /\ UNCHANGED <<channel, pc>>
         ELSE /\ sample' = 0
              /\ IF channel + 1 < totalNumInputChannels
                   THEN channel' = channel + 1 /\ UNCHANGED pc
                   ELSE pc' = "down" /\ UNCHANGED channel
    /\ UNCHANGED <<currentSampleRate, locals, buffer, blockBudget, readEpoch>>
    /\ UNCHANGED textValue
    /\ UNCHANGED <<parameters, stateType, currentPresetName, files, uiBudget, loadsDone, seen,
                   lastSave>>

ProcessSample == SampleCore /\ UNCHANGED twin

\* processSamplesDown and the return, on one processor
ExitBlock(d, block) ==
    LET dn == processSamplesDown(d.oversampler, block)
    IN  [dsp |-> [d EXCEPT !.oversampler = dn.st], buffer |-> dn.block]

ExitCore ==
    /\ pc = "down"
    /\ \E e \in {ExitBlock(dsp, oversampledBlock)} : dsp' = e.dsp /\ buffer' = e.buffer
    /\ pc' = "idle"
    /\ UNCHANGED <<currentSampleRate, locals, oversampledBlock, channel, sample, iter,
                   blockBudget, readEpoch>>
    /\ UNCHANGED textValue
    /\ UNCHANGED <<parameters, stateType, currentPresetName, files, uiBudget, loadsDone, seen,
                   lastSave>>

ProcessBlockExit == ExitCore /\ UNCHANGED twin

\* ---------------------------------------------------------- the UI thread
\* a slider attachment sets one parameter
SetParameter ==
    /\ uiBudget > 0
    /\ \E id \in ParamIdSet : \E v \in ParamValues(id) :
          /\ parameters[id] # v
          /\ parameters' = [parameters EXCEPT ![id] = SnapToRange(id, v)]
    /\ seen' = seen \cup {parameters'}
    /\ lastSave' = [f \in FileNames |-> [lastSave[f] EXCEPT !.dirty = lastSave[f].called]]
    /\ uiBudget' = uiBudget - 1
    /\ UNCHANGED <<stateType, currentPresetName, files, loadsDone, twin>>
    /\ UNCHANGED audioVars
    /\ UNCHANGED textValue

\* the cutoff slider's text box is given a frequency: the parameter's
\* text-to-value function is called on it
TypeCutoffText ==
    /\ uiBudget > 0
    /\ \E hz \in TypedHz :
          textValue' = [called |-> TRUE, hz |-> hz, result |-> cutoffTextToValue(hz)]
    /\ uiBudget' = uiBudget - 1
    /\ UNCHANGED <<parameters, stateType, currentPresetName, files, loadsDone, seen, lastSave,
                   twin>>
    /\ UNCHANGED audioVars

\* the document savePresetToFile writes
PresetDocument ==
    [createXml(stateType, parameters) EXCEPT !.hasName = TRUE, !.presetName = currentPresetName]

\* a save that leaves the presetName attribute out
savePresetToFile_NoName(file, written) ==
    IF ~hasPresetExtension(file) \/ ~written THEN files
    ELSE [files EXCEPT ![file] = createXml(stateType, parameters)]

\* savePresetToFile: the file system after the call; written is whether
\* XmlElement::writeTo succeeds
savePresetToFile(file, written) ==
    IF ~hasPresetExtension(file) \/ ~written THEN files
    ELSE [files EXCEPT ![file] = PresetDocument]

SavePresetToFile ==
    /\ uiBudget > 0
    /\ \E file \in FileNames : \E written \in BOOLEAN :
          /\ files' = savePresetToFile(file, written)
          /\ lastSave' = [lastSave EXCEPT ![file] =
                 [called |-> TRUE, written |-> hasPresetExtension(file) /\ written,
                  dirty |-> FALSE, parameters |-> parameters,
                  presetName |-> currentPresetName]]
    /\ uiBudget' = uiBudget - 1
    /\ UNCHANGED <<parameters, stateType, currentPresetName, loadsDone, seen, twin>>
    /\ UNCHANGED audioVars
    /\ UNCHANGED textValue

\* loadPresetFromFile: whether the file is taken
PresetAccepted(file) ==
    /\ files[file].kind # "none"
    /\ files[file].kind = "xml"
    /\ files[file].tag = stateType

\* loadPresetFromFile: the store and the preset name after the call
loadPresetFromFile(file) ==
    IF PresetAccepted(file)
      THEN [parameters |-> replaceState(parameters, files[file].values),
            currentPresetName |-> IF files[file].hasName THEN files[file].presetName
                                  ELSE "Unknown"]
      ELSE [parameters |-> parameters, currentPresetName |-> currentPresetName]

LoadCore(file) ==
    /\ uiBudget > 0
    /\ \E r \in {loadPresetFromFile(file)} :
          /\ parameters' = r.parameters
          /\ currentPresetName' = r.currentPresetName
    /\ loadsDone' = IF PresetAccepted(file) THEN loadsDone + 1 ELSE loadsDone
    /\ seen' = seen \cup {parameters'}
    /\ uiBudget' = uiBudget - 1
    /\ UNCHANGED <<stateType, files, lastSave, twin>>
    /\ UNCHANGED audioVars
    /\ UNCHANGED textValue

LoadPresetFromFile == \E file \in FileNames : LoadCore(file)

\* setStateInformation: any block that parses replaces the state, whatever its root tag
setStateInformation(data) ==
    IF data.kind = "xml"
      THEN [parameters |-> replaceState(parameters, data.values), stateType |-> data.tag]
      ELSE [parameters |-> parameters, stateType |-> stateType]

SetStateCore(data) ==
    /\ uiBudget > 0
    /\ \E r \in {setStateInformation(data)} :
          /\ parameters' = r.parameters
          /\ stateType' = r.stateType
    /\ loadsDone' = IF data.kind = "xml" THEN loadsDone + 1 ELSE loadsDone
    /\ seen' = seen \cup {parameters'}
    /\ uiBudget' = uiBudget - 1
    /\ UNCHANGED <<currentPresetName, files, lastSave, twin>>
    /\ UNCHANGED audioVars
    /\ UNCHANGED textValue

SetStateInformation == \E data \in StateData : SetStateCore(data)

\* ------------------------------------------------------ the whole program
Next ==
    \/ PrepareToPlay
    \/ ProcessBlockEnter
    \/ ReadParameter
    \/ UpdateDSPModules
    \/ ProcessSample
    \/ ProcessBlockExit
    \/ SetParameter
    \/ TypeCutoffText
    \/ SavePresetToFile
    \/ LoadPresetFromFile
    \/ SetStateInformation

Spec == Init /\ [][Next]_vars

\* ------------------------------------------ the audio thread on its own
\* the host has restored any in-range settings before it starts the audio
InitAudio == InitFrom(Settings, MaxAudioBlocks, 0)

NextAudio ==
    \/ PrepareToPlay
    \/ ProcessBlockEnter
    \/ ReadParameter
    \/ UpdateDSPModules
    \/ ProcessSample
    \/ ProcessBlockExit

SpecAudio == InitAudio /\ [][NextAudio]_vars

\* --------------------------------- two processors given the same calls
\* the host's buffers that differ from input in channel 0 at most
SameRightChannel(input) ==
    {[input EXCEPT ![0] = [i \in 1..BlockSize |-> l]] : l \in Levels}

TwinPrepare ==
    \E sampleRate \in SampleRates :
        /\ PrepareCore(sampleRate)
        /\ twin' = [twin EXCEPT !.dsp = Prepared(twin.dsp, sampleRate)]

TwinEnter ==
    \E input \in HostBlocks : \E other \in SameRightChannel(input) :
        /\ EnterCore(input)
        /\ \E e \in {EnterBlock(twin.dsp, other)} :
              twin' = [dsp |-> e.dsp, buffer |-> other, oversampledBlock |-> e.block]

TwinUpdate ==
    /\ UpdateCore
    /\ twin' = [twin EXCEPT !.dsp = UpdateModules(twin.dsp, locals)]

TwinSample ==
    /\ SampleCore
    /\ \E r \in {Iterate(twin.dsp, twin.oversampledBlock)} :
          twin' = [twin EXCEPT !.dsp = r.dsp,
                               !.oversampledBlock[channel][sample + 1] = r.iter.mixed]

TwinExit ==
    /\ ExitCore
    /\ \E e \in {ExitBlock(twin.dsp, twin.oversampledBlock)} :
          twin' = [twin EXCEPT !.dsp = e.dsp, !.buffer = e.buffer]

InitTwin == InitFrom({ParamDefault}, MaxAudioBlocks, 0)

NextTwin ==
    \/ TwinPrepare
    \/ TwinEnter
    \/ ReadParameter
    \/ TwinUpdate
    \/ TwinSample
    \/ TwinExit

SpecTwin == InitTwin /\ [][NextTwin]_vars

\* ------------------------------------------------ the UI thread on its own
InitPreset == InitFrom({ParamDefault}, 0, MaxPresetOps)

NextPreset ==
    \/ SetParameter
    \/ SavePresetToFile
    \/ LoadPresetFromFile

SpecPreset == InitPreset /\ [][NextPreset]_vars

\* ------------------- the audio thread on a store that holds any value
InitStore == InitFrom(AnyStores, MaxAudioBlocks, 0)

SpecStore == InitStore /\ [][NextAudio]_vars

\* --------------------------- the audio thread on a host that sends silence
ProcessSilenceEnter == EnterCore(Silence) /\ UNCHANGED twin

InitSilence == InitFrom({ParamDefault}, MaxSilentBlocks, 0)

NextSilence ==
    \/ PrepareToPlay
    \/ ProcessSilenceEnter
    \/ ReadParameter
    \/ UpdateDSPModules
    \/ ProcessSample
    \/ ProcessBlockExit

SpecSilence == InitSilence /\ [][NextSilence]_vars

\* ------------------------------------- the cutoff text box on its own
NextText ==
    \/ SetParameter
    \/ TypeCutoffText

SpecText == InitFrom({ParamDefault}, 0, MaxTextOps) /\ [][NextText]_vars

\* ------------------------------------------ the compressor on its own
\* simpleComp.processSample on a prepared compressor; no function of the
\* processor makes this call
CompressorSample ==
    /\ pc = "idle"
    /\ currentSampleRate # 0
    /\ \E input \in Levels :
          dsp' = [dsp EXCEPT !.simpleComp = Compressor_processSample(@, input)]
    /\ UNCHANGED <<currentSampleRate, pc, locals, buffer, oversampledBlock, channel, sample,
                   iter, blockBudget, readEpoch, twin>>
    /\ UNCHANGED textValue
    /\ UNCHANGED <<parameters, stateType, currentPresetName, files, uiBudget, loadsDone, seen,
                   lastSave>>

NextCompressor ==
    \/ PrepareToPlay
    \/ CompressorSample

SpecCompressor == InitFrom({ParamDefault}, 0, 0) /\ [][NextCompressor]_vars

\* ------------------------------------------------------------- properties
\* the continuous state of the stages: filter memories, one-pole memories,
\* the compressor's envelope and the oversampler's memories
ContinuousState(d) ==
    [prevY       |-> d.overdrive.prevY,
     postPrev    |-> d.dist.postPrev,
     distFilters |-> <<d.dist.filters[1].state, d.dist.filters[2].state>>,
     toneFilters |-> <<d.toneProcessor.lowFilter.state, d.toneProcessor.highFilter.state>>,
     envelope    |-> d.simpleComp.envelope,
     oversampler |-> d.oversampler]

\* the positions of oversampledBlock the loop has written
Processed(c, i) ==
    \/ pc = "down"
    \/ pc = "loop" /\ (c < channel \/ (c = channel /\ i <= sample))

\* C1: a prepareToPlay call leaves every stage's continuous state as it is in
\* a freshly constructed processor, whatever was processed before the call.
C1_PrepareResetsState ==
    [][(\E sampleRate \in SampleRates : PrepareCore(sampleRate))
          => ContinuousState(dsp') = ContinuousState(Constructed(0))]_vars

\* C2: the samples processBlock leaves in channel 1 are the same whatever the
\* host put in channel 0: a processor given the same calls and the same
\* channel 1 has the same channel 1 after the loop and after the block.
C2_ChannelsIndependent ==
    /\ pc = "down" => oversampledBlock[1] = twin.oversampledBlock[1]
    /\ (pc = "idle" /\ blockBudget < MaxAudioBlocks) => buffer[1] = twin.buffer[1]

\* C3: each local of a block is the store's value at its one read; from the
\* end of the reads to the end of the block the locals stay as they are, the
\* stages hold the values pushed from them and every iteration of the loop works
\* with them, whatever the UI thread writes to the store meanwhile.
C3_ControlsReadOncePerBlock ==
    [][/\ (pc = "read" /\ Len(locals') = Len(locals) + 1)
            => locals' = Append(locals, parameters[ParamIds[Len(locals) + 1]])
       /\ pc \in {"loop", "down"} /\ pc' # "read" => locals' = locals
       /\ pc' \in {"loop", "down"}
            => /\ dsp'.overdrive.drive = Local(locals', "drive")
               /\ dsp'.overdrive.tone = Local(locals', "tone")
               /\ dsp'.toneProcessor.balance = Local(locals', "tone")
               /\ dsp'.dist.preGain = Local(locals', "distortion")
               /\ dsp'.dist.sliderValue = Local(locals', "cutoff")
               /\ dsp'.fold.depth = Wavefolder_setDepth(dsp'.fold, Local(locals', "fold")).depth
               /\ iter'.ran => /\ iter'.flavor = Local(locals', "flavor")
                               /\ iter'.drywet = Local(locals', "drywet")
                               /\ iter'.outputGain = Local(locals', "output")]_vars

\* C3 witness: the UI thread has changed flavor since the block read it, and the
\* loop, now on the second channel, has just run an iteration with the value read.
C3_StaleReadInLoop ==
    /\ pc = "loop"
    /\ channel = 1
    /\ iter.ran
    /\ iter.flavor # parameters["flavor"]
    /\ iter.flavor = Local(locals, "flavor")

\* the eight locals of a block, as a store content
LocalsAsStore == [id \in ParamIdSet |-> Local(locals, id)]

\* C4: the eight values a block works with never mix values from before a
\* preset load with values from after it: when a load came between the reads,
\* the eight values are still a content the store had at one instant.
C4_LoadAtomicForAudioThread ==
    (pc \in {"loop", "down"} /\ (\E i, j \in 1..Len(readEpoch) : readEpoch[i] # readEpoch[j]))
        => LocalsAsStore \in seen

\* C5: a load of a snapshot that is missing, does not parse, has a foreign
\* root tag or lacks parameters changes neither the parameters nor the
\* preset name.
C5_InvalidSnapshotKeepsState ==
    [][(\/ \E file \in FileNames : LoadCore(file) /\ ~ValidSnapshot(files[file])
        \/ \E data \in StateData : SetStateCore(data) /\ ~ValidSnapshot(data))
          => parameters' = parameters /\ currentPresetName' = currentPresetName]_vars

C8_DryIsBitIdentical ==
    (iter.ran /\ iter.drywet = 0) => iter.mixed = iter.inputSample

\* C8: with drywet at 0 the wet path has no part in the sample the loop
\* writes: it is the input sample times the output gain, through tanh.
C8_DryIsInputThroughOutputStage ==
    (iter.ran /\ iter.drywet = 0)
        => /\ iter.mix = iter.inputSample
           /\ iter.mixed = Tanh(Mul(iter.inputSample, iter.outputGain))

\* C8 witness: an iteration with drywet at 0 whose input is not silence and
\* whose wet path gave something else than the input.
C8_DryWithDifferentWet ==
    /\ iter.ran
    /\ iter.drywet = 0
    /\ iter.inputSample # 0
    /\ iter.filtered # iter.inputSample

\* C9: with flavor at 0 the blend is overdrive plus distortion, the wavefolder
\* having weight 0; with flavor at 1 it is overdrive plus wavefolder, the
\* distortion having weight 0.
C9_FlavorBoundaries ==
    iter.ran =>
        /\ iter.flavor = 0
             => iter.f = 0 /\ iter.parallel = iter.odSample + iter.distSample
        /\ iter.flavor = ONE
             => iter.f = ONE /\ iter.parallel = iter.odSample + iter.foldSample

\* C9 witness: an iteration with flavor at 1 in which the wavefolder's and the
\* distortion's samples differ, so that the weights decide the blend.
C9_BoundaryWithDistinctBranches ==
    /\ iter.ran
    /\ iter.flavor = ONE
    /\ iter.foldSample # iter.distSample
    /\ iter.foldSample # 0

\* C10: the sample an iteration writes is tanh of the mix times the output
\* gain, and every sample the loop has written lies in [-1, 1].
C10_OutputBounded ==
    /\ iter.ran => iter.mixed = Tanh(Mul(iter.mix, iter.outputGain))
    /\ \A c \in Channels : \A i \in 1..BlockSize * getOversamplingFactor :
          Processed(c, i) => oversampledBlock[c][i] \in (-ONE)..ONE

\* C10 witness: an iteration whose mix times the output gain is beyond 1.
C10_ClipEngaged ==
    /\ iter.ran
    /\ Abs(Mul(iter.mix, iter.outputGain)) > ONE

\* C11: once prepared, with the eight controls at their defaults and silence
\* as every block's input, every sample the loop writes and every sample
\* handed back to the host is zero, and every stage's continuous state is as
\* in a fresh processor, all zero.
C11_SilenceIsFixedPoint ==
    currentSampleRate # 0 =>
        /\ ContinuousState(dsp) = ContinuousState(Constructed(0))
        /\ buffer = Silence
        /\ \A c \in Channels : \A i \in 1..Len(oversampledBlock[c]) : oversampledBlock[c][i] = 0
        /\ iter.ran => iter.mixed = 0 /\ iter.odSample = 0 /\ iter.filtered = 0

\* C11 witness: the last of several silent blocks has been processed and
\* handed back.
C11_SilentBlocksDone ==
    /\ blockBudget = 0
    /\ pc = "idle"
    /\ iter.ran
    /\ parameters = ParamDefault
    /\ buffer = Silence

\* C12: once prepared, every stage that turns a frequency into a coefficient
\* holds the same sample rate, the nominal rate times the oversampling factor,
\* which is the rate the loop hands to the Overdrive.
C12_OneEffectiveSampleRate ==
    currentSampleRate # 0 =>
        /\ dsp.toneProcessor.fs = oversampledRate
        /\ dsp.dist.fs = oversampledRate
        /\ dsp.simpleComp.sampleRate = oversampledRate

\* C13: the audio thread makes no heap allocation between the entry to
\* processBlock and its return.
C13_NoHeapInProcessBlock ==
    pc # "idle" => dsp.heapOps = 0

\* C14: once prepareToPlay has returned, the host has been given the
\* oversampler's latency, which is more than zero samples.
C14_LatencyReported ==
    currentSampleRate # 0 => dsp.latencySamples > 0

\* C15: a loadPresetFromFile that takes its file and a setStateInformation
\* whose block parses end with the display notification of notifyUIUpdate
\* made.
C15_LoadNotifiesDisplay ==
    [][(\/ \E file \in FileNames : LoadCore(file) /\ PresetAccepted(file)
        \/ \E data \in StateData : SetStateCore(data) /\ data.kind = "xml")
          => dsp'.displayUpdates = notifyUIUpdate(dsp).displayUpdates]_vars

\* C16: the cutoff text-to-value function returns 0 for every typed
\* frequency of 100 Hz or less, and never returns a NaN or a value outside
\* [0, 1].
C16_CutoffTextGuarded ==
    textValue.called =>
        /\ ~textValue.result.isNaN
        /\ textValue.result.value \in 0..ONE
        /\ textValue.hz <= CutoffKnots[1] => textValue.result.value = 0

\* C17 as stated: in every iteration the Overdrive is given the input sample
\* that is also the dry signal of the mix, and the Distortion and the
\* Wavefolder are given that iteration's Overdrive output.
C17_OverdriveFedRawInput ==
    [][SampleCore =>
          /\ iter'.inputSample = oversampledBlock[channel][sample + 1]
          /\ iter'.odSample =
                 Overdrive_processSample(dsp.overdrive, iter'.inputSample, oversampledRate).out
          /\ iter'.distSample = Distortion_processSample(dsp.dist, iter'.odSample).out
          /\ iter'.foldSample = Wavefolder_processSample(dsp.fold, iter'.odSample)
          /\ iter'.mix = DryWetMix(iter'.inputSample, iter'.filtered, iter'.drywet)]_vars

\* C17: in every iteration the Overdrive is given the input sample times the
\* fixed pre-gain 0.6, the dry signal of the mix is the input sample itself,
\* and the Distortion and the Wavefolder are given that iteration's Overdrive
\* output.
C17_OverdriveFedScaledInput ==
    [][SampleCore =>
          /\ iter'.inputSample = oversampledBlock[channel][sample + 1]
          /\ iter'.scaledInput = Mul(iter'.inputSample, preGain)
          /\ iter'.odSample =
                 Overdrive_processSample(dsp.overdrive, iter'.scaledInput, oversampledRate).out
          /\ iter'.distSample = Distortion_processSample(dsp.dist, iter'.odSample).out
          /\ iter'.foldSample = Wavefolder_processSample(dsp.fold, iter'.odSample)
          /\ iter'.mix = DryWetMix(iter'.inputSample, iter'.filtered, iter'.drywet)]_vars

\* C17 witness: an iteration whose input is not silence, so that the sample
\* the Overdrive was given is not the dry sample, and whose Overdrive output
\* is not silence.
C17_ScaledInputDiffers ==
    /\ iter.ran
    /\ iter.inputSample # 0
    /\ iter.scaledInput # iter.inputSample
    /\ iter.odSample # 0
    /\ iter.distSample # iter.foldSample

\* C18: once prepared, the tone filter's two sets of coefficients are those
\* updateCoefficients derives from the sample rate, balance, pivot and Q the
\* ToneProcessor holds, and an iteration of the loop leaves them as they are.
C18_ToneCoefficientsCurrent ==
    [][/\ currentSampleRate' # 0
            => LET t == dsp'.toneProcessor
                   u == Tone_updateCoefficients(t)
               IN  /\ t.lowFilter.coefficients = u.lowFilter.coefficients
                   /\ t.highFilter.coefficients = u.highFilter.coefficients
       /\ SampleCore
            => /\ dsp'.toneProcessor.lowFilter.coefficients
                      = dsp.toneProcessor.lowFilter.coefficients
               /\ dsp'.toneProcessor.highFilter.coefficients
                      = dsp.toneProcessor.highFilter.coefficients]_vars

\* C18 witness: the loop has run the tone filter after a push that moved the
\* balance and the pivot off what prepare left.
C18_ToneRunAfterChange ==
    /\ pc = "loop"
    /\ iter.ran
    /\ iter.filtered # 0
    /\ dsp.toneProcessor.balance # ToneProcessor.balance
    /\ dsp.toneProcessor.modulatedPivot # ToneProcessor.modulatedPivot
    /\ dsp.toneProcessor.lowFilter.coefficients # IIRFilter.coefficients

\* C19: whatever the envelope, the gain processSample computes is at most
\* 0 dB, its linear gain at most 1, and the output is no larger than the input.
C19_CompressorOnlyReduces ==
    dsp.simpleComp.call.ran =>
        /\ dsp.simpleComp.call.gainDb <= 0
        /\ dsp.simpleComp.call.gain <= CS
        /\ Abs(dsp.simpleComp.call.output) <= Abs(dsp.simpleComp.call.input)

\* C20: every step of processBlock leaves the compressor as it is; the
\* compressor changes in prepareToPlay only, which leaves its envelope at 0;
\* and an iteration of the loop gives the same locals and the same stage
\* states whatever state the compressor is in.
C20_CompressorOutsideBlock ==
    [][/\ (pc # "idle" \/ pc' # "idle") => dsp'.simpleComp = dsp.simpleComp
       /\ dsp'.simpleComp # dsp.simpleComp
            => /\ \E sampleRate \in SampleRates : PrepareCore(sampleRate)
               /\ dsp'.simpleComp.envelope = 0
       /\ SampleCore
            => \A c \in {SimpleCompressor,
                         Compressor_processSample(Compressor_prepare(SimpleCompressor, 48000),
                                                  ONE)} :
                  LET r == PerSample([dsp EXCEPT !.simpleComp = c], locals,
                                     oversampledBlock[channel][sample + 1], oversampledRate)
                  IN  /\ r.iter = iter'
                      /\ r.dsp.overdrive = dsp'.overdrive
                      /\ r.dsp.dist = dsp'.dist
                      /\ r.dsp.toneProcessor = dsp'.toneProcessor]_vars

\* C20 witness: a block with a non-silent output has been processed and handed
\* back, and the prepared compressor's envelope is still 0.
C20_BlockDoneEnvelopeZero ==
    /\ pc = "idle"
    /\ blockBudget = 0
    /\ iter.ran
    /\ iter.mixed # 0
    /\ dsp.simpleComp.attackCoeff # Unset
    /\ dsp.simpleComp.envelope = 0
    /\ ~dsp.simpleComp.call.ran

\* C21: from construction onward the Distortion's cutoff is the logarithmic
\* mapping of its current sliderValue, and both low-pass sections hold the
\* coefficients makeLowPass gives for that cutoff at the stage's sample rate.
C21_CoefficientsFromSliderValue ==
    LET hz     == CutoffHz(dsp.dist.sliderValue)
        coeffs == makeLowPass(dsp.dist.fs, hz, 707)
    IN  /\ dsp.dist.cutoff = hz
        /\ \A i \in 1..2 : dsp.dist.filters[i].coefficients = coeffs

====
